---- MODULE Spec2Model ----
(***************************************************************************)
(* rtop: the App state (process table, row selection, sort key, UI mode)   *)
(* and the tick/input loop of run_app, from src/rtop/src/main.rs.          *)
(*                                                                         *)
(* The sysinfo process map is a sequence of process records in the map's   *)
(* iteration order.  The operating system is the environment: a refresh    *)
(* may return any process table, and a kill request may meet a process     *)
(* that is gone, protected or killable.                                    *)
(***************************************************************************)
EXTENDS Integers, Sequences, FiniteSets, TLC

VARIABLES
    system,            \* app.system.processes(): records in iteration order
    selected_process,  \* app.selected_process: None or Some(row index)
    sort_by,           \* app.sort_by
    state,             \* app.state
    pc,                \* position of run_app in its loop
    elapsed,           \* last_tick.elapsed(), saturated at TickRate
    last,              \* the event the current iteration received
    prev,              \* the App fields as they were before that event
    sent,              \* kill requests issued while handling that event
    ret,               \* values returned by send_signal for that event
    os_target          \* what the live OS holds for the dispatch target

vars == <<system, selected_process, sort_by, state, pc, elapsed,
          last, prev, sent, ret, os_target>>

(***************************************************************************)
(* Bounds                                                                  *)
(***************************************************************************)
MaxPid == 2
MaxSel == 2
TickRate == 2

\* usize::MAX, the value of 0usize - 1 in a build without overflow checks.
\* Only `i < usize::MAX` is ever computed from it; the value here is the
\* largest integer TLC represents, above every reachable row index.
UsizeMax == 2147483647

(***************************************************************************)
(* Data                                                                    *)
(***************************************************************************)
None == <<>>
Some(x) == <<x>>
IsSome(o) == o /= <<>>
Unwrap(o) == o[1]

Pids == 1..MaxPid
\* process names "a" and "b", as byte sequences
Names == { <<97>>, <<98>> }
\* cpu_usage() in percent and memory() in bytes: two values of each
CpuValues == {0, 1}
MemValues == {0, 1}
ProcessInfo == [pid : Pids, name : Names, cpu : CpuValues, mem : MemValues]

SortBy == {"Cpu", "Memory", "Name", "Pid"}
AppState == {"Main", "ProcessMenu"}
Signal == {"Interrupt", "Quit", "Term", "Kill"}

PidsOf(procs) == { procs[i].pid : i \in 1..Len(procs) }

\* the process tables over a set of process records: distinct pids, in any
\* iteration order
TablesOver(infos) ==
    { t \in UNION { [1..n -> infos] : n \in 0..MaxPid } :
        \A i, j \in 1..Len(t) : i /= j => t[i].pid /= t[j].pid }

\* every process table a refresh can return
ProcessTables == TablesOver(ProcessInfo)

\* the tables the loop is run on: all processes hold the same memory, which
\* keeps the graph of resamples (every table to every table) small
LoopTables == TablesOver({ p \in ProcessInfo : p.mem = 0 })

(***************************************************************************)
(* App::get_sorted_processes                                               *)
(***************************************************************************)
RECURSIVE BytesCmp(_, _)
\* <[u8] as Ord>::cmp behind str::cmp: lexicographic, shorter prefix first
BytesCmp(s, t) ==
    IF s = <<>> /\ t = <<>> THEN "Equal"
    ELSE IF s = <<>> THEN "Less"
    ELSE IF t = <<>> THEN "Greater"
    ELSE IF Head(s) < Head(t) THEN "Less"
    ELSE IF Head(s) > Head(t) THEN "Greater"
    ELSE BytesCmp(Tail(s), Tail(t))

IntCmp(x, y) == IF x < y THEN "Less" ELSE IF x > y THEN "Greater" ELSE "Equal"

\* the comparator closure handed to sort_by for each SortBy variant
Compare(key, a, b) ==
    CASE key = "Cpu"    -> IntCmp(b.cpu, a.cpu)
      [] key = "Memory" -> IntCmp(b.mem, a.mem)
      [] key = "Name"   -> BytesCmp(a.name, b.name)
      [] key = "Pid"    -> IntCmp(a.pid, b.pid)

RECURSIVE InsertStable_dedup(_, _, _)
\* a sort that keeps one of two elements that compare equal
InsertStable_dedup(key, x, s) ==
    IF s = <<>> THEN <<x>>
    ELSE IF Compare(key, x, Head(s)) = "Less" THEN <<x>> \o s
    ELSE IF Compare(key, x, Head(s)) = "Equal" THEN s
    ELSE <<Head(s)>> \o InsertStable_dedup(key, x, Tail(s))

RECURSIVE InsertStable(_, _, _)
\* place x, which came later in the input than all of s, after its equals
InsertStable(key, x, s) ==
    IF s = <<>> THEN <<x>>
    ELSE IF Compare(key, x, Head(s)) = "Less" THEN <<x>> \o s
    ELSE <<Head(s)>> \o InsertStable(key, x, Tail(s))

RECURSIVE SortByStable(_, _)
\* slice::sort_by: a stable sort
SortByStable(key, procs) ==
    IF procs = <<>> THEN <<>>
    ELSE InsertStable(key, procs[Len(procs)],
                      SortByStable(key, SubSeq(procs, 1, Len(procs) - 1)))

get_sorted_processes(procs, key) == SortByStable(key, procs)

\* Vec::get(idx) on a 0-based index
VecGet(v, idx) == IF idx < Len(v) THEN Some(v[idx + 1]) ELSE None

\* App::get_selected_process
get_selected_process(procs, sel, key) ==
    IF IsSome(sel) THEN VecGet(get_sorted_processes(procs, key), Unwrap(sel))
    ELSE None

(***************************************************************************)
(* App::send_signal                                                        *)
(***************************************************************************)
\* System::process(pid): a lookup in the table the last refresh cached
SystemProcess(procs, pid) ==
    IF pid \in PidsOf(procs)
    THEN Some(CHOOSE p \in { procs[i] : i \in 1..Len(procs) } : p.pid = pid)
    ELSE None

\* the kill(2) call behind Process::kill_with, against the live OS
OsKill(target) ==
    CASE target = "killable"  -> "Ok"
      [] target = "gone"      -> "ESRCH"
      [] target = "protected" -> "EPERM"

\* Process::kill_with: None for a signal the platform lacks (none of the
\* four on unix, the only platform this program builds for), otherwise
\* Some(whether kill(2) succeeded)
kill_with(signal, target) == Some(OsKill(target) = "Ok")

\* a send_signal that asks again when the first request fails
send_signal_retry(procs, sel, key, signal, target) ==
    LET p == get_selected_process(procs, sel, key) IN
    IF IsSome(p) /\ IsSome(SystemProcess(procs, Unwrap(p).pid))
    THEN LET req == [pid |-> Unwrap(p).pid, signal |-> signal,
                     result |-> OsKill(target)] IN
         [sent |-> IF OsKill(target) = "Ok" THEN <<req>> ELSE <<req, req>>,
          ret  |-> << IsSome(kill_with(signal, target)) >>]
    ELSE [sent |-> <<>>, ret |-> << FALSE >>]

\* App::send_signal: the requests it issues and the value it returns
send_signal(procs, sel, key, signal, target) ==
    LET p == get_selected_process(procs, sel, key) IN
    IF IsSome(p) /\ IsSome(SystemProcess(procs, Unwrap(p).pid))
    THEN [sent |-> << [pid |-> Unwrap(p).pid, signal |-> signal,
                       result |-> OsKill(target)] >>,
          ret  |-> << IsSome(kill_with(signal, target)) >>]
    ELSE [sent |-> <<>>, ret |-> << FALSE >>]

(***************************************************************************)
(* App::new and the state before run_app's loop                            *)
(***************************************************************************)
\* an App::new that starts on the Memory key
Init_memory ==
    /\ system \in LoopTables
    /\ selected_process = None
    /\ sort_by = "Memory"
    /\ state = "Main"
    /\ pc = "draw"
    /\ elapsed = 0
    /\ last = "start"
    /\ prev = None
    /\ sent = <<>>
    /\ ret = <<>>
    /\ os_target = "none"

Init ==
    /\ system \in LoopTables
    /\ selected_process = None
    /\ sort_by = "Cpu"
    /\ state = "Main"
    /\ pc = "draw"
    /\ elapsed = 0
    /\ last = "start"
    /\ prev = None
    /\ sent = <<>>
    /\ ret = <<>>
    /\ os_target = "none"

(***************************************************************************)
(* run_app: one iteration is draw, poll, the key handler, the tick check   *)
(***************************************************************************)
\* terminal.draw(|f| ui(f, &mut app)): ui reads the App and changes none of
\* it; drawing takes time.  Terminal I/O errors are left out.
Draw ==
    /\ pc = "draw"
    /\ \E e \in elapsed..TickRate : elapsed' = e
    /\ pc' = "poll"
    /\ UNCHANGED <<system, selected_process, sort_by, state, last, prev,
                   sent, ret, os_target>>

\* a timeout that is the whole tick_rate, whatever has elapsed
PollTimeout_full(e) == TickRate

\* tick_rate.checked_sub(last_tick.elapsed()).unwrap_or(0)
PollTimeout(e) == IF e <= TickRate THEN TickRate - e ELSE 0

\* poll(timeout) returns true and read() yields the key, d time units in
Receive(key) ==
    /\ pc = "poll"
    /\ \E d \in 0..PollTimeout(elapsed) : elapsed' = elapsed + d
    /\ last' = key
    /\ prev' = Some([selected_process |-> selected_process,
                     sort_by |-> sort_by, state |-> state])

NoDispatch == /\ sent' = <<>> /\ ret' = <<>> /\ os_target' = "none"

\* KeyCode::Char('q') => return Ok(())
KeyQ ==
    /\ Receive("q")
    /\ pc' = "done"
    /\ NoDispatch
    /\ UNCHANGED <<system, selected_process, sort_by, state>>

\* process_count - 1 on usize, where overflow checks are off
WrappingDecrement(n) == IF n = 0 THEN UsizeMax ELSE n - 1

\* the Down arm computes 0usize - 1
DownOverflows(sel, count) == IsSome(sel) /\ count = 0

\* the selection the Down arm assigns
DownSelection(sel, count) ==
    IF sel = None THEN Some(0)
    ELSE IF Unwrap(sel) < WrappingDecrement(count)
         THEN Some(Unwrap(sel) + 1)
         ELSE sel

\* KeyCode::Down.  0usize - 1 panics where overflow checks are on and wraps
\* where they are off; the build decides.
KeyDown ==
    /\ Receive("Down")
    /\ NoDispatch
    /\ UNCHANGED <<system, sort_by, state>>
    /\ \/ /\ ~DownOverflows(selected_process, Len(system))
          /\ selected_process' = DownSelection(selected_process, Len(system))
          /\ pc' = "check"
       \/ /\ DownOverflows(selected_process, Len(system))
          /\ pc' = "panic"
          /\ UNCHANGED selected_process
       \/ /\ DownOverflows(selected_process, Len(system))
          /\ Unwrap(selected_process) < MaxSel
          /\ selected_process' = DownSelection(selected_process, Len(system))
          /\ pc' = "check"

\* the selection the Up arm assigns
UpSelection(sel) ==
    IF IsSome(sel)
    THEN Some(IF Unwrap(sel) > 0 THEN Unwrap(sel) - 1 ELSE 0)
    ELSE None

\* KeyCode::Up
KeyUp ==
    /\ Receive("Up")
    /\ NoDispatch
    /\ selected_process' = UpSelection(selected_process)
    /\ pc' = "check"
    /\ UNCHANGED <<system, sort_by, state>>

\* the four sort-key arms
SetSort(key, by) ==
    /\ Receive(key)
    /\ NoDispatch
    /\ sort_by' = by
    /\ pc' = "check"
    /\ UNCHANGED <<system, selected_process, state>>

KeyC == SetSort("c", "Cpu")
KeyM == SetSort("m", "Memory")
KeyN == SetSort("n", "Name")
KeyP == SetSort("p", "Pid")

\* the state the 'k' arm leaves
KillMenuState(st, procs, sel, key) ==
    IF st = "Main" THEN "ProcessMenu" ELSE st

\* KeyCode::Char('k')
KeyK ==
    /\ Receive("k")
    /\ NoDispatch
    /\ state' = KillMenuState(state, system, selected_process, sort_by)
    /\ pc' = "check"
    /\ UNCHANGED <<system, selected_process, sort_by>>

\* an Esc arm that forgets the assignment
EscState_stay(st) == st

\* the state the Esc arm leaves
EscState(st) == "Main"

\* KeyCode::Esc
KeyEsc ==
    /\ Receive("Esc")
    /\ NoDispatch
    /\ state' = EscState(state)
    /\ pc' = "check"
    /\ UNCHANGED <<system, selected_process, sort_by>>

\* the state a signal-choice arm leaves after send_signal
AfterSignalState(st) == "Main"

\* signal arms that leave out the test of app.state
ChooseSignal_always(key, signal) ==
    /\ Receive(key)
    /\ pc' = "check"
    /\ UNCHANGED <<system, selected_process, sort_by>>
    /\ \E target \in {"gone", "protected", "killable"} :
          LET r == send_signal(system, selected_process, sort_by,
                               signal, target) IN
          /\ sent' = r.sent
          /\ ret' = r.ret
          /\ os_target' = IF IsSome(get_selected_process(
                                       system, selected_process, sort_by))
                           THEN target ELSE "none"
          /\ state' = AfterSignalState(state)

\* the arms '1', '9', '2', '3': send_signal, then back to Main
ChooseSignal(key, signal) ==
    /\ Receive(key)
    /\ pc' = "check"
    /\ UNCHANGED <<system, selected_process, sort_by>>
    /\ IF state = "ProcessMenu"
       THEN \E target \in {"gone", "protected", "killable"} :
              LET r == send_signal(system, selected_process, sort_by,
                                   signal, target) IN
              /\ sent' = r.sent
              /\ ret' = r.ret
              /\ os_target' = IF IsSome(get_selected_process(
                                           system, selected_process, sort_by))
                               THEN target ELSE "none"
              /\ state' = AfterSignalState(state)
       ELSE /\ NoDispatch
            /\ UNCHANGED state

Key1 == ChooseSignal("1", "Interrupt")
Key9 == ChooseSignal("9", "Kill")
Key2 == ChooseSignal("2", "Quit")
Key3 == ChooseSignal("3", "Term")

\* `_ => {}`, and an event that is not a key
KeyOther ==
    /\ Receive("other")
    /\ NoDispatch
    /\ pc' = "check"
    /\ UNCHANGED <<system, selected_process, sort_by, state>>

\* poll(timeout) returns false: the whole timeout went by
PollTimedOut ==
    /\ pc = "poll"
    /\ elapsed' = elapsed + PollTimeout(elapsed)
    /\ last' = "timeout"
    /\ prev' = Some([selected_process |-> selected_process,
                     sort_by |-> sort_by, state |-> state])
    /\ NoDispatch
    /\ pc' = "check"
    /\ UNCHANGED <<system, selected_process, sort_by, state>>

\* if last_tick.elapsed() >= tick_rate
TickDue(e) == e >= TickRate

\* the test that ends the iteration; the event's record ends with it
TickCheck ==
    /\ pc = "check"
    /\ pc' = IF TickDue(elapsed) THEN "update" ELSE "draw"
    /\ last' = "none"
    /\ prev' = None
    /\ NoDispatch
    /\ UNCHANGED <<system, selected_process, sort_by, state, elapsed>>

\* an update that puts the sort key back to the one App::new sets
Update_resets_sort ==
    /\ pc = "update"
    /\ \E t \in LoopTables : system' = t
    /\ elapsed' = 0
    /\ pc' = "draw"
    /\ last' = "tick"
    /\ sort_by' = "Cpu"
    /\ UNCHANGED <<selected_process, state, prev, sent, ret, os_target>>

\* app.update(); last_tick = Instant::now().  refresh_all replaces the
\* table by whatever the OS holds now.
Update ==
    /\ pc = "update"
    /\ \E t \in LoopTables : system' = t
    /\ elapsed' = 0
    /\ pc' = "draw"
    /\ last' = "tick"
    /\ UNCHANGED <<selected_process, sort_by, state, prev, sent, ret,
                   os_target>>

Next ==
    \/ Draw
    \/ KeyQ \/ KeyDown \/ KeyUp
    \/ KeyC \/ KeyM \/ KeyN \/ KeyP
    \/ KeyK \/ KeyEsc
    \/ Key1 \/ Key9 \/ Key2 \/ Key3
    \/ KeyOther \/ PollTimedOut
    \/ TickCheck \/ Update

Spec == Init /\ [][Next]_vars

(***************************************************************************)
(* The sorted view on its own: any process table, the sort-key commands    *)
(* and the iterations between two resamples                                *)
(***************************************************************************)
InitSort ==
    /\ system \in ProcessTables
    /\ selected_process = None
    /\ sort_by = "Cpu"
    /\ state = "Main"
    /\ pc = "draw"
    /\ elapsed = 0
    /\ last = "start"
    /\ prev = None
    /\ sent = <<>>
    /\ ret = <<>>
    /\ os_target = "none"

NextSort == Draw \/ KeyC \/ KeyM \/ KeyN \/ KeyP \/ TickCheck

SpecSort == InitSort /\ [][NextSort]_vars

TypeOK ==
    /\ system \in ProcessTables
    /\ selected_process \in {None} \cup { Some(i) : i \in 0..MaxSel + MaxPid }
    /\ sort_by \in SortBy
    /\ state \in AppState
    /\ pc \in {"draw", "poll", "check", "update", "done", "panic"}
    /\ elapsed \in 0..TickRate
    /\ last \in {"start", "none", "tick", "timeout", "q", "Down", "Up", "c",
                 "m", "n", "p", "k", "Esc", "1", "2", "3", "9", "other"}
    /\ Len(sent) <= 2
    /\ Len(ret) <= 1

(***************************************************************************)
(* Properties                                                              *)
(***************************************************************************)
SignalKeys == {"1", "2", "3", "9"}
SortKeys == {"c", "m", "n", "p"}

\* SIGINT, SIGQUIT, SIGTERM, SIGKILL for the commands 1, 2, 3, 9
SignalOfKey(k) ==
    CASE k = "1" -> "Interrupt"
      [] k = "2" -> "Quit"
      [] k = "3" -> "Term"
      [] k = "9" -> "Kill"

\* an event has been handled and the loop goes on to its tick check
Handled(k) == pc = "check" /\ last = k

\* the App fields before the event in hand
Before == Unwrap(prev)

\* the process the selection resolved to before the event in hand
SelectedBefore ==
    get_selected_process(system, Before.selected_process, Before.sort_by)

\* the process the selection resolves to now
SelectedNow == get_selected_process(system, selected_process, sort_by)

\* C1: the kill-menu command leaves UiMode Normal when the selection
\* resolves to no process of the table (Selection None included).
C1_KillMenuNeedsSelection ==
    (Handled("k") /\ Before.state = "Main" /\ SelectedBefore = None)
        => state = "Main"

\* C2: a signal-choice command in KillMenu issues at most one request, of
\* the signal its key stands for, and leaves UiMode Normal whatever the
\* outcome; outside the handling of such a command no request is issued.
C2_OneAttemptThenNormal ==
    /\ (pc = "check" /\ last \in SignalKeys /\ Before.state = "ProcessMenu")
         => /\ Len(sent) <= 1
            /\ \A i \in 1..Len(sent) : sent[i].signal = SignalOfKey(last)
            /\ state = "Main"
    /\ (last \notin SignalKeys \/ pc /= "check") => sent = <<>>

\* a SIGKILL request was refused by the OS and the mode is Normal again
C2_Witness ==
    /\ Handled("9") /\ Before.state = "ProcessMenu"
    /\ Len(sent) = 1 /\ sent[1].signal = "Kill" /\ sent[1].result = "EPERM"
    /\ state = "Main"

\* C3: cancel in KillMenu sets UiMode Normal, issues no signal request and
\* leaves Selection and SortKey as they were.
C3_CancelNoDispatch ==
    (Handled("Esc") /\ Before.state = "ProcessMenu")
        => /\ state = "Main"
           /\ sent = <<>> /\ ret = <<>>
           /\ selected_process = Before.selected_process
           /\ sort_by = Before.sort_by

\* the menu was open over a selected process and Esc closed it
C3_Witness ==
    /\ Handled("Esc") /\ Before.state = "ProcessMenu"
    /\ IsSome(SelectedNow) /\ sort_by = "Name"
    /\ state = "Main"

\* C4: across a sort-key command, and across a resample that keeps the
\* selected process, the selection resolves to the same ProcessId.
C4_SelectionByIdentity ==
    [][ ( /\ (sort_by' /= sort_by \/ system' /= system)
          /\ IsSome(SelectedNow)
          /\ Unwrap(SelectedNow).pid \in PidsOf(system') )
        => ( /\ IsSome(SelectedNow')
             /\ Unwrap(SelectedNow').pid = Unwrap(SelectedNow).pid ) ]_vars

\* C5: when a resample removes the selected process, the selection then
\* resolves to None, or the selection has been moved by a fallback rule;
\* it does not resolve through the unchanged row index.
C5_NoStaleIndex ==
    [][ ( /\ system' /= system
          /\ IsSome(SelectedNow)
          /\ Unwrap(SelectedNow).pid \notin PidsOf(system') )
        => ( SelectedNow' = None \/ selected_process' /= selected_process )
      ]_vars

\* C6: with the selection on row i, Down moves to i+1 unless that is past
\* the last row, Up moves to i-1 unless i is 0, and neither panics nor
\* underflows, whatever the size of the table.
C6_NavigationClamps ==
    /\ pc /= "panic"
    /\ (Handled("Down") /\ IsSome(Before.selected_process))
         => LET i == Unwrap(Before.selected_process) IN
            selected_process =
                Some(IF i + 1 < Len(system) THEN i + 1 ELSE i)
    /\ (Handled("Up") /\ IsSome(Before.selected_process))
         => LET i == Unwrap(Before.selected_process) IN
            selected_process = Some(IF i > 0 THEN i - 1 ELSE 0)

\* C7: with Selection None, Down selects row 0 if the view has a row and
\* leaves Selection None if it has none; Up leaves Selection None.
C7_NavigationFromNone ==
    /\ (Handled("Down") /\ Before.selected_process = None)
         => selected_process = IF Len(system) > 0 THEN Some(0) ELSE None
    /\ (Handled("Up") /\ Before.selected_process = None)
         => selected_process = None

\* C8: when the cached sample shows the selected process and the live OS
\* no longer has it, a signal-choice command issues no request, reports an
\* outcome other than success, and UiMode goes from KillMenu to Normal.
C8_DispatchChecksLiveTable ==
    ( /\ pc = "check" /\ last \in SignalKeys
      /\ Before.state = "ProcessMenu"
      /\ IsSome(SelectedBefore)
      /\ os_target = "gone" )
        => /\ sent = <<>>
           /\ ret = << FALSE >>
           /\ state = "Main"

\* C9: when the OS refuses the signal, send_signal reports an outcome
\* other than the one of a delivery, the loop keeps running, Selection and
\* SortKey are unchanged and UiMode is Normal.
C9_DeliveryFailureReported ==
    ( /\ pc \in {"check", "panic", "done"} /\ last \in SignalKeys
      /\ Before.state = "ProcessMenu"
      /\ os_target = "protected" )
        => /\ ret = << FALSE >>
           /\ pc = "check"
           /\ selected_process = Before.selected_process
           /\ sort_by = Before.sort_by
           /\ state = "Main"

\* the number of rows of a view that show the process pid
Rows(view, pid) == Cardinality({ i \in 1..Len(view) : view[i].pid = pid })

\* C10: for every SortKey the sorted view holds every process of the
\* sample exactly once, so it is as long as the sample.
C10_ViewIsPermutation ==
    \A key \in SortBy :
        LET view == get_sorted_processes(system, key) IN
        /\ Len(view) = Len(system)
        /\ \A i \in 1..Len(system) :
              /\ Rows(view, system[i].pid) = 1
              /\ \E j \in 1..Len(view) : view[j] = system[i]

\* a full table that the Memory key shows in another order than the map,
\* with two processes that compare equal under another key
C10_Witness ==
    /\ Len(system) = MaxPid
    /\ Handled("m")
    /\ get_sorted_processes(system, sort_by) /= system
    /\ \E i, j \in 1..Len(system) :
          i /= j /\ Compare("Name", system[i], system[j]) = "Equal"

\* C11: in the sorted view, two processes with an equal primary key (Cpu,
\* Memory or Name) stand in ascending ProcessId order, whatever the
\* iteration order of the process map.
C11_TiesByAscendingPid ==
    \A key \in {"Cpu", "Memory", "Name"} :
        LET view == get_sorted_processes(system, key) IN
        \A i, j \in 1..Len(view) :
            (i < j /\ Compare(key, view[i], view[j]) = "Equal")
                => view[i].pid < view[j].pid

\* C12: SortKey changes only in the handling of a sort-key command, and
\* that handling changes neither the process table nor UiMode.
C12_SortKeyFrame ==
    [][ /\ (sort_by' /= sort_by) => (pc = "poll" /\ last' \in SortKeys)
        /\ (pc = "poll" /\ last' \in SortKeys)
             => (system' = system /\ state' = state) ]_vars

\* a sort-key command changed the key while the kill menu was open over a
\* table of two processes
C12_Witness ==
    /\ Handled("n") /\ Before.sort_by = "Pid" /\ sort_by = "Name"
    /\ state = "ProcessMenu" /\ Len(system) = 2

\* C13: a tick check that finds the tick interval elapsed goes on to the
\* resample, which restarts the interval before the next draw; and the
\* wait for input lasts at most max(0, tick interval - elapsed), after
\* which the iteration goes on to its tick check unless it ends the loop.
C13_DueResampleNotPostponed ==
    [][ /\ (pc = "check" /\ elapsed >= TickRate) => pc' = "update"
        /\ (pc = "update")
             => (pc' = "draw" /\ elapsed' = 0 /\ last' = "tick")
        /\ (pc = "poll")
             => /\ elapsed' - elapsed
                    <= (IF TickRate - elapsed > 0
                        THEN TickRate - elapsed ELSE 0)
                /\ pc' \in {"check", "done", "panic"} ]_vars

\* the resample has run and restarted the interval, in a run in which
\* input events opened the kill menu over a selected row
C13_Witness ==
    /\ pc = "draw" /\ last = "tick" /\ elapsed = 0
    /\ state = "ProcessMenu" /\ IsSome(selected_process)

\* C14: the quit command ends the loop at once, from either UiMode: it
\* dispatches nothing and no draw, tick check or resample follows it; and
\* the loop ends on no other input command.
C14_OnlyQuitEndsLoop ==
    /\ [](last = "q" => (pc = "done" /\ sent = <<>>))
    /\ [][last /= "q"]_vars
    /\ [](pc \in {"done", "panic"} => last = "q")

\* C15: until the loop has handled its first event, UiMode is Normal,
\* Selection is None and SortKey is ByCpuDescending.
C15_InitialState ==
    last = "start"
        => (state = "Main" /\ selected_process = None /\ sort_by = "Cpu")

\* the first frame of a non-empty table has been drawn and no event has
\* been handled yet
C15_Witness ==
    /\ last = "start" /\ pc = "poll" /\ system /= <<>>
    /\ state = "Main" /\ selected_process = None /\ sort_by = "Cpu"

\* C16: after update() the process table holds at least as many processes
\* as it held before.
C16_UpdateNeverShrinks ==
    [][ pc = "update" => Len(system') >= Len(system) ]_vars

\* C17: while quit has not been issued, the kill menu can always be left
\* again: the loop is running, each of its steps can be taken, and at the
\* wait for input the cancel command is accepted and leads to Normal; and
\* the menu is left by a cancel or a signal-choice command only.
C17_NormalReachableAgain ==
    /\ []( (state = "ProcessMenu" /\ pc /= "done")
             => /\ pc /= "panic"
                /\ pc = "draw" => ENABLED Draw
                /\ pc = "poll" => ENABLED (KeyEsc /\ state' = "Main")
                /\ pc = "check" => ENABLED TickCheck
                /\ pc = "update" => ENABLED Update )
    /\ [][ (state = "ProcessMenu" /\ state' = "Main")
             => last' \in {"Esc"} \cup SignalKeys ]_vars

\* C18: a signal key pressed in UiMode Normal calls send_signal not at all
\* and changes none of table, selection, sort key and mode; every kill
\* request is issued by a signal key pressed in KillMenu.
C18_NoDispatchInNormal ==
    [][ /\ (pc = "poll" /\ last' \in SignalKeys /\ state = "Main")
             => /\ sent' = <<>> /\ ret' = <<>>
                /\ UNCHANGED <<system, selected_process, sort_by, state>>
        /\ (sent' /= <<>>)
             => (pc = "poll" /\ last' \in SignalKeys
                 /\ state = "ProcessMenu") ]_vars

\* key 3 was pressed in Normal over a selected process and nothing was sent
C18_Witness ==
    /\ Handled("3") /\ Before.state = "Main"
    /\ IsSome(SelectedNow)
    /\ sent = <<>> /\ ret = <<>> /\ state = "Main"

\* the ProcessId a dispatch would target, if any
TargetPid(p) == IF IsSome(p) THEN Some(Unwrap(p).pid) ELSE None

\* C19: while the kill menu stays open over a selected process, no step
\* (navigation, sort key, resample) makes a dispatch target another
\* process, and the request of a signal-choice command goes to the process
\* the selection resolves to: the signalled process is the one selected
\* when the menu was opened.
C19_TargetFixedWhileMenuOpen ==
    [][ /\ ( /\ state = "ProcessMenu" /\ state' = "ProcessMenu"
              /\ IsSome(SelectedNow) /\ IsSome(SelectedNow') )
             => TargetPid(SelectedNow') = TargetPid(SelectedNow)
        /\ (sent' /= <<>>)
             => Some(sent'[1].pid) = TargetPid(SelectedNow) ]_vars

\* C20: a selection Some(i) is always a row of the current view:
\* i < number of processes, also after a resample that shrinks the table.
C20_SelectionIsRow ==
    IsSome(selected_process) => Unwrap(selected_process) < Len(system)

====
